---- MODULE Spec2Model ----
(***************************************************************************)
(* Mercator -> S2 tile reprojection: the worker unit (src/src/worker.js),  *)
(* the single-threaded converter ToS2 (src/src/index.js), the output tile  *)
(* store they write to, and the dispatcher that feeds the units.           *)
(*                                                                         *)
(* Conventions.                                                            *)
(*  - An optional JS value is a sequence: <<>> is undefined, <<v>> is v.   *)
(*  - Angles are integers in hundredths of a degree.                       *)
(*  - A JS array / Buffer is a 1-based sequence; index k of the code is    *)
(*    element k+1.  Reading past the end yields UndefByte (JS undefined).  *)
(*  - An output path face/zoom/x/y.png is the tuple <<face, zoom, x, y>>,  *)
(*    its directories are the prefixes of length 1, 2 and 3.               *)
(***************************************************************************)
EXTENDS Integers, Sequences, FiniteSets, TLC

\* ------------------------------------------------------------------ bounds
\* number of execution units of the pool
NumUnits == 2
\* tileSize option ranges over 1..MaxTileSize
MaxTileSize == 2
\* zoom levels enumerated by the work-set specification: 0..MaxEnumZoom
MaxEnumZoom == 2

\* --------------------------------------------------------- program constants
LAT_BOUND == 8505
DefaultInputZoom == 2
DefaultOutputZoom == 0
DefaultTileSize == 512
DefaultColor == <<9, 8, 17, 255>>
\* JS undefined read out of a raster's data
UndefByte == -1

\* ------------------------------------------------------------ JS arithmetic
RECURSIVE Pow2(_)
Pow2(n) == IF n <= 0 THEN 1 ELSE 2 * Pow2(n - 1)

\* 2 * v wrapped to a signed 32-bit integer, for v a signed 32-bit integer
\* (written so that no intermediate value leaves the 32-bit range)
Dbl32(v) ==
    IF v >= 1073741824 THEN (v - 1073741824 - 1073741824) * 2
    ELSE IF v < -1073741824 THEN (v + 1073741824 + 1073741824) * 2
    ELSE 2 * v

RECURSIVE ShlIter(_, _)
ShlIter(a, n) == IF n <= 0 THEN a ELSE ShlIter(Dbl32(a), n - 1)

\* a << n of JS for a 32-bit a: the result wraps to 32 bits, the shift count
\* is taken mod 32
Shl32(a, n) == ShlIter(a, n % 32)

\* Math.round(num / den) for den > 0: floor(num/den + 1/2)
RoundDiv(num, den) == (2 * num + den) \div (2 * den)

\* JS a % b for b > 0: the sign follows the dividend
JsMod(a, b) == IF a >= 0 THEN a % b ELSE -((-a) % b)

Abs(a) == IF a < 0 THEN -a ELSE a

Max2(a, b) == IF a >= b THEN a ELSE b

\* ------------------------------------------------------------------ options
\* An Options object is a function whose domain is the set of supplied keys.
Has(o, k) == k \in DOMAIN o

\* `if (options.k)`: a supplied number is truthy unless 0, a boolean unless false
TruthyNum(o, k) == Has(o, k) /\ o[k] # 0

TruthyBool(o, k) == Has(o, k) /\ o[k] = TRUE

\* the constructors of Worker and ToS2: class field defaults, then the options
\* that pass `if (options.k)`, then the derived maxPixelSize
Construct(o) ==
    LET inputZoom == IF TruthyNum(o, "inputZoom") THEN o["inputZoom"] ELSE DefaultInputZoom
        outputZoom == IF TruthyNum(o, "outputZoom") THEN o["outputZoom"] ELSE DefaultOutputZoom
        tileSize == IF TruthyNum(o, "tileSize") THEN o["tileSize"] ELSE DefaultTileSize
    IN  [ inputZoom    |-> inputZoom,
          outputZoom   |-> outputZoom,
          tileSize     |-> tileSize,
          tmsStyle     |-> IF TruthyBool(o, "tmsStyle") THEN o["tmsStyle"] ELSE TRUE,
          srs          |-> IF Has(o, "srs") /\ o["srs"] # "" THEN o["srs"] ELSE "900913",
          defaultColor |-> IF Has(o, "defaultColor") THEN o["defaultColor"] ELSE DefaultColor,
          maxPixelSize |-> Shl32(1, inputZoom) * tileSize ]

\* ----------------------------------------------------- projection libraries
\* The cube-sphere and Mercator mathematics belong to external libraries
\* (s2projection, @mapbox/sphericalmercator).  They are pure functions; the
\* operators below are piecewise-linear integer stand-ins with the libraries'
\* ranges: ST in [0,1), lon in [-180,180], |lat| up to 90 on the polar faces,
\* and a pixel address capped above at size * 2^zoom.

\* bboxST(x, y, zoom): [x, y, x+1, y+1] / 2^zoom, kept as numerators
bboxST(x, y, zoom) == << x, y, x + 1, y + 1 >>

\* bbox[0] + i * (bbox[2] - bbox[0]) / tileSize, as a numerator over
\* 2^zoom * tileSize
STnum(b0, b1, i, tileSize) == b0 * tileSize + i * (b1 - b0)

\* pseudo-angle of the direction (px, py), in hundredths of a degree
Angle(px, py) ==
    IF px = 0 /\ py = 0 THEN 0
    ELSE IF Abs(px) >= Abs(py)
         THEN IF px > 0 THEN (4500 * py) \div px
                        ELSE 18000 - ((4500 * py) \div (-px))
         ELSE IF py > 0 THEN 9000 - ((4500 * px) \div py)
                        ELSE -9000 + ((4500 * px) \div (-py))

\* S2Point.fromST(face, s, t) followed by S2LonLat.fromS2Point: <<lon, lat>>
\* for s = sN / D, t = tN / D
LonLatFromFaceST(face, sN, tN, D) ==
    LET U == 2 * sN - D
        V == 2 * tN - D
        a == (9000 * sN) \div D
        b == (9000 * tN) \div D
        polar == 9000 - ((4500 * Max2(Abs(U), Abs(V))) \div D)
    IN  CASE face = 0 -> << a - 4500, b - 4500 >>
          [] face = 1 -> << 4500 + a, b - 4500 >>
          [] face = 2 -> << Angle(-U, -V), polar >>
          [] face = 3 -> << 13500 + b, 4500 - a >>
          [] face = 4 -> << b - 13500, 4500 - a >>
          [] OTHER    -> << Angle(V, U), -polar >>

\* S2LonLat.normalize(): fold the longitude into [-180, 180]
Normalize(ll) ==
    LET lon == ll[1]
    IN  << IF lon > 18000 THEN lon - 36000
           ELSE IF lon < -18000 THEN lon + 36000 ELSE lon,
           ll[2] >>

\* SphericalMercator.px(ll, zoom) for size = tileSize: rounded pixel address,
\* each coordinate capped above at size * 2^zoom (the library takes two
\* arguments: tmsStyle and srs passed by the caller are ignored)
MercPx(ll, zoom, size) ==
    LET Ac == size * Pow2(zoom)
        x == RoundDiv(Ac * (18000 + ll[1]), 36000)
        y == RoundDiv(Ac * (8505 - ll[2]), 17010)
    IN  << IF x > Ac THEN Ac ELSE x, IF y > Ac THEN Ac ELSE y >>

\* a clamp that loses the sign of the latitude
ClampLat_unsigned(ll) ==
    << ll[1], IF Abs(ll[2]) > LAT_BOUND THEN LAT_BOUND ELSE ll[2] >>

\* lines 113-114: clamp the latitude to [-LAT_BOUND, LAT_BOUND]
ClampLat(ll) ==
    << ll[1],
       IF ll[2] < -LAT_BOUND THEN -LAT_BOUND
       ELSE IF ll[2] > LAT_BOUND THEN LAT_BOUND ELSE ll[2] >>

\* lines 118-121: pin one pixel coordinate into [0, maxPixelSize)
ClampPx(p, maxPixelSize) ==
    IF p < 0 THEN 0
    ELSE IF p >= maxPixelSize THEN maxPixelSize - 1 ELSE p

\* lines 107-116 for output pixel (i, j) of tile (face, zoom, x, y): the
\* set holding the Mercator pixel address px (each intermediate value is
\* bound once)
PxOf(cfg, face, zoom, x, y, i, j) ==
    { MercPx(ll, cfg.inputZoom, cfg.tileSize) :
      ll \in { ClampLat(n) :
               n \in { Normalize(p) :
                       p \in { LonLatFromFaceST(face, sN, tN, Pow2(zoom) * cfg.tileSize) :
                               sN \in { STnum(bbox[1], bbox[3], i, cfg.tileSize) :
                                        bbox \in { bboxST(x, y, zoom) } },
                               tN \in { STnum(bbox[2], bbox[4], j, cfg.tileSize) :
                                        bbox \in { bboxST(x, y, zoom) } } } } } }

\* lines 118-126 for output pixel (i, j) of tile (face, zoom, x, y): the
\* source tile and the offset inside it
\* [tileX, tileY, tileXPos, tileYPos]
SourceAddr(cfg, face, zoom, x, y, i, j) ==
    CHOOSE r \in
        { [ tileX    |-> px0 \div cfg.tileSize,
            tileY    |-> px1 \div cfg.tileSize,
            tileXPos |-> JsMod(px0, cfg.tileSize),
            tileYPos |-> JsMod(px1, cfg.tileSize) ] :
          px0 \in { ClampPx(px[1], cfg.maxPixelSize) :
                    px \in PxOf(cfg, face, zoom, x, y, i, j) },
          px1 \in { ClampPx(px[2], cfg.maxPixelSize) :
                    px \in PxOf(cfg, face, zoom, x, y, i, j) } } : TRUE

\* ------------------------------------------------------------------ rasters
\* the metadata fields of a decoded PNG that getPixel copies (lines 158-169)
MetaFields ==
    { "width", "height", "depth", "interlace", "palette", "color", "alpha",
      "bpp", "colorType", "gamma" }

\* the hard-coded default of Worker.saveImage (lines 184-195)
DefaultOutPNG ==
    [ width |-> 512, height |-> 512, depth |-> 8, interlace |-> FALSE,
      palette |-> FALSE, color |-> TRUE, alpha |-> TRUE, bpp |-> 4,
      colorType |-> 6, gamma |-> 0 ]

\* raster.data[idx]: undefined past the end of the data
ByteAt(data, idx) ==
    IF idx >= 0 /\ idx < Len(data) THEN data[idx + 1] ELSE UndefByte

\* Buffer.from(array): every entry becomes a byte, undefined becomes 0
BufferFrom(data) ==
    [ k \in 1..Len(data) |-> IF data[k] = UndefByte THEN 0 ELSE data[k] % 256 ]

\* PNG.sync.write(outPNG): the persisted raster is the metadata and the data
\* of the object handed to the codec
PNGSyncWrite(png) == [ k \in MetaFields \cup {"data"} |-> png[k] ]

\* fault: a key that leaves out the row of the source tile
toID_noRow(z, x, y) == (x * 32) + z

\* the two parts of the key: (1 << z) * y + x, whose product with 32 lies
\* beyond 32 bits at the largest zooms, and z
toIDParts(z, x, y) == << Shl32(1, z) * y + x, z >>

\* the cache key of a source tile
toID(z, x, y) == (toIDParts(z, x, y)[1] * 32) + toIDParts(z, x, y)[2]

EmptyImages == << >>

\* ----------------------------------------------------------------- getPixel
\* Worker.getPixel / ToS2.getPixel against the source files `files` (a
\* function from <<inputZoom, tileX, tileY>> to a file, its domain the files
\* that exist).  A file that is not a decodable PNG makes PNG.sync.read throw.
\* Result: the instance's cache and outPNG afterwards, the RGBA value, and
\* whether the call threw.
getPixel(cfg, files, images, outPNG, tileX, tileY, tileXPos, tileYPos) ==
    LET id   == toID(cfg.inputZoom, tileX, tileY)
        path == << cfg.inputZoom, tileX, tileY >>
    IN  IF id \notin DOMAIN images /\ path \notin DOMAIN files
        THEN [ images |-> images, outPNG |-> outPNG,
               rgba |-> cfg.defaultColor, threw |-> FALSE ]
        ELSE IF id \notin DOMAIN images /\ ~files[path].ok
        THEN [ images |-> images, outPNG |-> outPNG,
               rgba |-> cfg.defaultColor, threw |-> TRUE ]
        ELSE
          CHOOSE r \in
            { [ images |-> images2,
                outPNG |-> IF outPNG = << >>
                           THEN << [ k \in MetaFields |-> images2[id][k] ] >>
                           ELSE outPNG,
                rgba |-> << ByteAt(images2[id].data, idx),
                            ByteAt(images2[id].data, idx + 1),
                            ByteAt(images2[id].data, idx + 2),
                            ByteAt(images2[id].data, idx + 3) >>,
                threw |-> FALSE ] :
              images2 \in { IF id \in DOMAIN images THEN images
                            ELSE images @@ (id :> files[path].png) },
              idx \in { Shl32(cfg.tileSize * tileYPos + tileXPos, 2) } } : TRUE

\* fault: an output index without the vertical flip
OutIdx_noFlip(tileSize, i, j) == Shl32(tileSize * j + i, 2)

\* line 129: the output index of loop indices (i, j)
OutIdx(tileSize, i, j) == Shl32(tileSize * (tileSize - 1 - j) + i, 2)

\* new Array(tileSize * tileSize * 4): every entry a hole
NewOutputData(tileSize) == [ k \in 1..(tileSize * tileSize * 4) |-> UndefByte ]

\* outputData[idx .. idx+3] = rgba (an index past the end would grow the array;
\* OutIdx stays inside it)
StorePixel(data, idx, rgba) ==
    [ k \in DOMAIN data |->
        IF k - 1 >= idx /\ k - 1 <= idx + 3 THEN rgba[k - idx] ELSE data[k] ]

\* one iteration of the pixel loop (lines 104-133) for pixel number n
\* (j = n div tileSize outer, i = n mod tileSize inner); st holds the
\* instance's cache and outPNG, the output array and whether a call threw
PixelStep(cfg, files, tile, n, st) ==
    CHOOSE r \in
        { [ images |-> g.images, outPNG |-> g.outPNG,
            outputData |-> IF g.threw THEN st.outputData
                           ELSE StorePixel(st.outputData,
                                           OutIdx(cfg.tileSize, n % cfg.tileSize,
                                                  n \div cfg.tileSize), g.rgba),
            threw |-> g.threw ] :
          g \in { getPixel(cfg, files, st.images, st.outPNG,
                           a.tileX, a.tileY, a.tileXPos, a.tileYPos) :
                  a \in { SourceAddr(cfg, tile.face, tile.zoom, tile.x, tile.y,
                                     n % cfg.tileSize, n \div cfg.tileSize) } } } : TRUE

\* the pixel loop of buildTile / convert (lines 102-135) from pixel number n
\* to the end (the state of each iteration is bound once, as s)
RECURSIVE PixelLoop(_, _, _, _, _)
PixelLoop(cfg, files, tile, n, st) ==
    CHOOSE r \in
        { IF s.threw \/ m >= cfg.tileSize * cfg.tileSize THEN s
          ELSE PixelLoop(cfg, files, tile, m + 1, PixelStep(cfg, files, tile, m, s)) :
          s \in { st }, m \in { n } } : TRUE

\* lines 101-135 on an instance with cache `images` and field `outPNG`
RunPixelLoop(cfg, files, tile, images, outPNG) ==
    CHOOSE r \in
        { PixelLoop(c, files, tile, 0,
                    [ images |-> images, outPNG |-> outPNG,
                      outputData |-> NewOutputData(c.tileSize), threw |-> FALSE ]) :
          c \in { cfg } } : TRUE

\* ------------------------------------------------------------- source files
GrayData(w, h) ==
    [ k \in 1..(w * h * 4) |-> IF k % 4 = 0 THEN 255 ELSE 128 ]

SeedData(w, h, seed) ==
    [ k \in 1..(w * h * 4) |-> (seed * 37 + k * 3) % 256 ]

MkPNG(w, h, depth, colorType, data) ==
    [ width |-> w, height |-> h, depth |-> depth, interlace |-> FALSE,
      palette |-> FALSE, color |-> TRUE, alpha |-> (colorType = 6),
      bpp |-> 4, colorType |-> colorType, gamma |-> 0, data |-> data ]

GoodFile(png) == [ ok |-> TRUE, png |-> png ]

CorruptFile == [ ok |-> FALSE ]

\* all source tile paths of zoom z
SourcePaths(z) ==
    { << z, tx, ty >> : tx \in 0..(Pow2(z) - 1), ty \in 0..(Pow2(z) - 1) }

\* the source pyramids the model runs on, by name, for input zoom z and tile
\* size T:
\*   "empty"   no source file at all
\*   "gray"    one uniform gray raster of 4T x 4T pixels at tile (0, 0)
\*   "full"    every tile present, T x T pixels, 16-bit RGB metadata on the
\*             tiles of odd column, 8-bit RGBA on the others
\*   "west"    only the tiles of column 0 present, 16-bit RGB
\*   "corrupt" as "full", the file of tile (0, 0) is not a PNG
PyramidNames == { "empty", "gray", "full", "west", "corrupt" }

FullTile(T, p) ==
    GoodFile(MkPNG(T, T, IF p[2] % 2 = 1 THEN 16 ELSE 8,
                   IF p[2] % 2 = 1 THEN 2 ELSE 6,
                   SeedData(T, T, 1 + p[2] + 4 * p[3])))

Pyramid(name, z, T) ==
    CASE name = "empty" -> [ p \in {} |-> CorruptFile ]
      [] name = "gray"  ->
           [ p \in { << z, 0, 0 >> } |-> GoodFile(MkPNG(4 * T, 4 * T, 8, 6, GrayData(4 * T, 4 * T))) ]
      [] name = "full"  -> [ p \in SourcePaths(z) |-> FullTile(T, p) ]
      [] name = "west"  ->
           [ p \in { q \in SourcePaths(z) : q[2] = 0 } |->
               GoodFile(MkPNG(T, T, 16, 2, SeedData(T, T, 9 + p[3]))) ]
      [] OTHER ->
           [ p \in SourcePaths(z) |->
               IF p[2] = 0 /\ p[3] = 0 THEN CorruptFile ELSE FullTile(T, p) ]

\* ------------------------------------------------------------- output store
\* fault: a path that leaves out the face directory
OutPath_noFace(face, zoom, x, y) == << 0, zoom, x, y >>

\* outputFolder + '/' + face + '/' + zoom + '/' + x + '/' + y + '.png'
OutPath(face, zoom, x, y) == << face, zoom, x, y >>

PathOf(tile) == OutPath(tile.face, tile.zoom, tile.x, tile.y)

\* the directory of a path at level n: 1 = face, 2 = face/zoom, 3 = face/zoom/x
DirOf(path, n) == SubSeq(path, 1, n)

\* fault: the existence test is never true
tileExists_never(files, face, zoom, x, y) == FALSE

\* fault: the existence test looks in the directory of the next zoom
tileExists_otherZoom(files, face, zoom, x, y) ==
    << face, zoom + 1, x, y >> \in DOMAIN files

\* fs.existsSync of line 93 (worker.js) and line 82 (index.js)
tileExists(files, face, zoom, x, y) == OutPath(face, zoom, x, y) \in DOMAIN files

\* fs.mkdirSync(dir): creates dir when it is absent and its parent exists (the
\* output folder itself exists); otherwise it throws (EEXIST / ENOENT)
MkdirOk(dirs, dir) ==
    /\ dir \notin dirs
    /\ (Len(dir) = 1 \/ SubSeq(dir, 1, Len(dir) - 1) \in dirs)

\* fs.writeFileSync(path, buf): needs the directory of the file
WriteOk(dirs, path) == DirOf(path, 3) \in dirs

\* the directories of a set of file paths
DirsOf(paths) == { DirOf(q, n) : q \in paths, n \in 1..3 }

\* ----------------------------------------------------------------- work set
\* buildZoomSet of index.js (lines 184-196): the three nested loops, face
\* outermost, then y, then x, each pushing one descriptor (the array after
\* each push or inner loop is bound once)
RECURSIVE xLoop(_, _, _, _, _, _)
xLoop(tiles, face, zoom, xySize, y, x) ==
    IF x < xySize
    THEN CHOOSE r \in
           { xLoop(pushed, face, zoom, xySize, y, x + 1) :
             pushed \in { Append(tiles, [ face |-> face, zoom |-> zoom, x |-> x, y |-> y ]) } } : TRUE
    ELSE tiles

RECURSIVE yLoop(_, _, _, _, _)
yLoop(tiles, face, zoom, xySize, y) ==
    IF y < xySize
    THEN CHOOSE r \in
           { yLoop(row, face, zoom, xySize, y + 1) :
             row \in { xLoop(tiles, face, zoom, xySize, y, 0) } } : TRUE
    ELSE tiles

RECURSIVE faceLoop(_, _, _)
faceLoop(tiles, face, zoom) ==
    IF face < 6
    THEN CHOOSE r \in
           { faceLoop(rows, face + 1, zoom) :
             rows \in { yLoop(tiles, face, zoom, Shl32(1, zoom), 0) } } : TRUE
    ELSE tiles

\* fault: the face loop starts at 1
buildZoomSet_from1(zoom) == faceLoop(<< >>, 1, zoom)

buildZoomSet(zoom) == faceLoop(<< >>, 0, zoom)

\* the dispatcher's work queue: the same enumeration, pulled one at a time
TileWorkQueue(zoom) == buildZoomSet(zoom)

\* explicit descriptor lists, as a caller of convert(tiles) or of the
\* dispatcher may supply them for output zoom z: distinct descriptors, one of
\* them with a zoom other than z; at zoom 1 two of them share the directory
\* face/zoom/x
ExplicitTiles(z) ==
    IF z = 0
    THEN << [ face |-> 0, zoom |-> 0, x |-> 0, y |-> 0 ],
            [ face |-> 2, zoom |-> 1, x |-> 1, y |-> 0 ],
            [ face |-> 1, zoom |-> 0, x |-> 0, y |-> 0 ],
            [ face |-> 4, zoom |-> 0, x |-> 0, y |-> 0 ] >>
    ELSE << [ face |-> 1, zoom |-> z, x |-> 0, y |-> 0 ],
            [ face |-> 1, zoom |-> z, x |-> 0, y |-> 1 ],
            [ face |-> 2, zoom |-> 0, x |-> 0, y |-> 0 ],
            [ face |-> 4, zoom |-> z, x |-> 0, y |-> 0 ],
            [ face |-> 0, zoom |-> z, x |-> 1, y |-> 1 ] >>

\* ------------------------------------------------------------------- state
VARIABLES
    options,      \* the Options object given to every constructor
    srcFiles,     \* the source pyramid: <<z, x, y>> -> file, for the files that exist
    outDirs,      \* the directories that exist under outputFolder
    outFiles,     \* the output files: <<face, zoom, x, y>> -> persisted raster
    mode,         \* "pool": worker units and a dispatcher; "convert": one ToS2
    work,         \* the descriptors of the run: the queue, or convert's tiles
    unit,         \* per unit: position, inputImages, outPNG, current order, outputData
    inbox,        \* per unit: work orders posted to it, not yet handled
    outbox,       \* per unit: messages it posted to the parent, not yet handled
    disp,         \* the dispatcher: next queue position, completed count, errors seen
    conv,         \* the ToS2 instance: position, inputImages, outPNG, tiles, index
    assignCount,  \* history: per output path, how often it was dispatched this run
    writeCount,   \* history: per output path, how many writeFileSync calls this run
    doneCount,    \* history: per output path, how many completions were posted this run
    replies,      \* history: per unit, messages posted since its last work order
    sent,         \* history: the messages posted this run, each with the line that posted it
    prevClean,    \* history: the previous run covered the full work set without failure
    call          \* the last direct call of a constructor or helper: its arguments and result

vars ==
    << options, srcFiles, outDirs, outFiles, mode, work, unit, inbox, outbox,
       disp, conv, assignCount, writeCount, doneCount, replies, sent, prevClean,
       call >>

Units == 1..NumUnits

\* the fields the constructor derives from the options (never assigned again)
Cfg == Construct(options)

Ready(built) == [ status |-> "ready", built |-> built ]

\* the three messages of buildTile: line 94 (the file exists), line 97 (the
\* zoom differs: no built property), line 138 (the tile was written)
\* fault: line 94 posts no built property
ReadyExisting_flagless == Ready(<< >>)

ReadyExisting == Ready(<< TRUE >>)

ReadySkipped == Ready(<< >>)

ReadyBuilt == Ready(<< TRUE >>)

BuildOrder(tile) == [ type |-> "build", s2tile |-> tile ]

\* a unit right after its constructor ran (line 81 posted the first ready);
\* `caught` records that a catch block of lines 201-203 ran for the order in hand
FreshUnit ==
    [ pc |-> "idle", inputImages |-> EmptyImages, outPNG |-> << >>,
      order |-> << >>, outputData |-> << >>, level |-> 0, caught |-> FALSE ]

FreshConv ==
    [ pc |-> "ready", inputImages |-> EmptyImages, outPNG |-> << >>,
      tiles |-> << >>, idx |-> 0 ]

FreshDisp == [ next |-> 1, completed |-> 0, errors |-> {} ]

\* no direct call was made
NoCall == [ op |-> "none" ]

NoCounts == [ q \in {} |-> 0 ]

Bump(f, q) == IF q \in DOMAIN f THEN [ f EXCEPT ![q] = @ + 1 ] ELSE f @@ (q :> 1)

Count(f, q) == IF q \in DOMAIN f THEN f[q] ELSE 0

\* a raster left in the output folder by an earlier, unrelated run
OldRaster == PNGSyncWrite(DefaultOutPNG @@ [ data |-> << 1, 2, 3, 4 >> ])

\* The runs the model starts from.  A scenario fixes the mode, the options
\* object, the source pyramid, whether the output folder already holds the
\* raster of tile (face 1, x 0, y 0), and whether the work is the full set of
\* the output zoom or an explicit list.
OptionsOf(T, z) ==
    IF z = 0 THEN [ inputZoom |-> 1, tileSize |-> T ]
    ELSE [ inputZoom |-> 1, tileSize |-> T, outputZoom |-> z ]

Scenario(m, T, z, name, pre, full) ==
    [ mode |-> m, options |-> OptionsOf(T, z), pyramid |-> name, pre |-> pre,
      full |-> full ]

\* the converter runs on every combination; the full set is run at zoom 0
ConvScenarios ==
    { Scenario("convert", T, z, name, pre, full) :
        T \in 1..MaxTileSize, z \in {0, 1}, name \in PyramidNames,
        pre \in BOOLEAN, full \in BOOLEAN }

\* the pool runs at the largest tile size: the full set of zoom 0 over a
\* partly present pyramid with one output raster already there, an explicit
\* list at zoom 1 over a pyramid with an undecodable file, and the same list
\* over a partly present pyramid into an empty output folder
PoolScenarios ==
    { Scenario("pool", MaxTileSize, 0, "west", TRUE, TRUE),
      Scenario("pool", MaxTileSize, 1, "corrupt", TRUE, FALSE),
      Scenario("pool", MaxTileSize, 1, "west", FALSE, FALSE) }

\* the full set is run at zoom 0 (six tiles)
Scenarios ==
    { sc \in ConvScenarios \cup PoolScenarios :
        sc.full => "outputZoom" \notin DOMAIN sc.options }

Init ==
    /\ \E sc \in Scenarios :
         LET c == Construct(sc.options)
             q == OutPath(1, c.outputZoom, 0, 0)
         IN  /\ mode = sc.mode
             /\ options = sc.options
             /\ srcFiles = Pyramid(sc.pyramid, c.inputZoom, c.tileSize)
             /\ outFiles = IF sc.pre THEN (q :> OldRaster) ELSE [ r \in {} |-> OldRaster ]
             /\ outDirs = IF sc.pre THEN DirsOf({q}) ELSE {}
             /\ work = IF sc.full THEN TileWorkQueue(c.outputZoom)
                       ELSE ExplicitTiles(c.outputZoom)
    /\ unit = [ u \in Units |-> FreshUnit ]
    /\ inbox = [ u \in Units |-> << >> ]
    /\ outbox = [ u \in Units |-> IF mode = "pool" THEN << Ready(<< >>) >> ELSE << >> ]
    /\ disp = FreshDisp
    /\ conv = FreshConv
    /\ assignCount = NoCounts
    /\ writeCount = NoCounts
    /\ doneCount = NoCounts
    /\ replies = [ u \in Units |-> 1 ]
    /\ sent = {}
    /\ prevClean = FALSE
    /\ call = NoCall

\* --------------------------------------------------- Worker (src/src/worker.js)
\* Every fs call on the shared output store is a step of its own; the pixel
\* loop reads only the source pyramid, which nothing writes, and is one step.

UnitFrame == UNCHANGED << options, srcFiles, mode, work, disp, conv, prevClean, call >>

\* parentPort.postMessage(msg) by unit u at the given line of buildTile; n is
\* the number of messages it posted before for the order it is handling
Post(u, line, msg, n) ==
    /\ outbox' = [ outbox EXCEPT ![u] = Append(@, msg) ]
    /\ replies' = [ replies EXCEPT ![u] = n + 1 ]
    /\ sent' = sent \cup { [ line |-> line, built |-> msg.built ] }

\* onMessage -> buildTile, lines 93-95: the output file exists
buildTile_exists(u) ==
    /\ mode = "pool" /\ unit[u].pc = "idle" /\ inbox[u] # << >>
    /\ LET t == Head(inbox[u]).s2tile
       IN  /\ Head(inbox[u]).type = "build"
           /\ tileExists(outFiles, t.face, t.zoom, t.x, t.y)
           /\ inbox' = [ inbox EXCEPT ![u] = Tail(@) ]
           /\ Post(u, 94, ReadyExisting, 0)
           /\ doneCount' = Bump(doneCount, PathOf(t))
    /\ UNCHANGED << unit, outDirs, outFiles, assignCount, writeCount >>
    /\ UnitFrame

\* fault: the sanity check returns without posting
buildTile_sanity_silent(u) ==
    /\ mode = "pool" /\ unit[u].pc = "idle" /\ inbox[u] # << >>
    /\ LET t == Head(inbox[u]).s2tile
       IN  /\ Head(inbox[u]).type = "build"
           /\ ~tileExists(outFiles, t.face, t.zoom, t.x, t.y)
           /\ t.zoom # Cfg.outputZoom
           /\ inbox' = [ inbox EXCEPT ![u] = Tail(@) ]
           /\ replies' = [ replies EXCEPT ![u] = 0 ]
    /\ UNCHANGED << unit, outbox, outDirs, outFiles, assignCount, writeCount,
                    doneCount, sent >>
    /\ UnitFrame

\* lines 96-97: the sanity check on the zoom
buildTile_sanity(u) ==
    /\ mode = "pool" /\ unit[u].pc = "idle" /\ inbox[u] # << >>
    /\ LET t == Head(inbox[u]).s2tile
       IN  /\ Head(inbox[u]).type = "build"
           /\ ~tileExists(outFiles, t.face, t.zoom, t.x, t.y)
           /\ t.zoom # Cfg.outputZoom
           /\ inbox' = [ inbox EXCEPT ![u] = Tail(@) ]
           /\ Post(u, 97, ReadySkipped, 0)
           /\ doneCount' = Bump(doneCount, PathOf(t))
    /\ UNCHANGED << unit, outDirs, outFiles, assignCount, writeCount >>
    /\ UnitFrame

\* lines 98-135: the pixel loop; an exception of PNG.sync.read ends the unit
buildTile_loop(u) ==
    /\ mode = "pool" /\ unit[u].pc = "idle" /\ inbox[u] # << >>
    /\ Head(inbox[u]).type = "build"
    /\ inbox' = [ inbox EXCEPT ![u] = Tail(@) ]
    /\ replies' = [ replies EXCEPT ![u] = 0 ]
    /\ \E t \in { Head(inbox[u]).s2tile } :
         /\ ~tileExists(outFiles, t.face, t.zoom, t.x, t.y)
         /\ t.zoom = Cfg.outputZoom
         /\ \E r \in { RunPixelLoop(Cfg, srcFiles, t, unit[u].inputImages, unit[u].outPNG) } :
              unit' = [ unit EXCEPT ![u] =
                          [ @ EXCEPT !.pc = IF r.threw THEN "failed" ELSE "flush",
                                     !.inputImages = r.images,
                                     !.outPNG = r.outPNG,
                                     !.order = << t >>,
                                     !.outputData = r.outputData ] ]
    /\ UNCHANGED << outbox, outDirs, outFiles, assignCount, writeCount, doneCount, sent >>
    /\ UnitFrame

\* Worker.saveImage lines 182-198: the default metadata when outPNG is not
\* set, then outPNG.data = Buffer.from(data)
saveImage_prepare(outPNG, data) ==
    LET png == IF outPNG = << >> THEN DefaultOutPNG ELSE outPNG[1]
    IN  << [ k \in MetaFields \cup {"data"} |->
               IF k = "data" THEN BufferFrom(data) ELSE png[k] ] >>

\* fault: flush() leaves the cache as it is
flush_keeps(u) ==
    /\ mode = "pool" /\ unit[u].pc = "flush"
    /\ unit' = [ unit EXCEPT ![u] =
                   [ @ EXCEPT !.pc = "chk", !.level = 1,
                              !.outPNG = saveImage_prepare(@, unit[u].outputData),
                              !.outputData = << >> ] ]
    /\ UNCHANGED << inbox, outbox, outDirs, outFiles, assignCount, writeCount,
                    doneCount, replies, sent >>
    /\ UnitFrame

\* line 136 and lines 182-200: flush(), then saveImage up to the encoding
flush(u) ==
    /\ mode = "pool" /\ unit[u].pc = "flush"
    /\ unit' = [ unit EXCEPT ![u] =
                   [ @ EXCEPT !.pc = "chk", !.level = 1,
                              !.inputImages = EmptyImages,
                              !.outPNG = saveImage_prepare(@, unit[u].outputData),
                              !.outputData = << >> ] ]
    /\ UNCHANGED << inbox, outbox, outDirs, outFiles, assignCount, writeCount,
                    doneCount, replies, sent >>
    /\ UnitFrame

\* lines 201-203, the existsSync of one directory level
saveImage_existsSync(u) ==
    /\ mode = "pool" /\ unit[u].pc = "chk"
    /\ LET dir == DirOf(PathOf(unit[u].order[1]), unit[u].level)
       IN  unit' = [ unit EXCEPT ![u] =
                       IF dir \notin outDirs THEN [ @ EXCEPT !.pc = "mk" ]
                       ELSE IF @.level = 3 THEN [ @ EXCEPT !.pc = "write" ]
                       ELSE [ @ EXCEPT !.level = @ + 1 ] ]
    /\ UNCHANGED << inbox, outbox, outDirs, outFiles, assignCount, writeCount,
                    doneCount, replies, sent >>
    /\ UnitFrame

\* fault: fs.mkdirSync(dir) outside a try block, its error ends the unit
saveImage_mkdirSync_throws(u) ==
    /\ mode = "pool" /\ unit[u].pc = "mk"
    /\ LET dir == DirOf(PathOf(unit[u].order[1]), unit[u].level)
       IN  /\ outDirs' = IF MkdirOk(outDirs, dir) THEN outDirs \cup {dir} ELSE outDirs
           /\ unit' = [ unit EXCEPT ![u] =
                          IF ~MkdirOk(outDirs, dir) THEN [ @ EXCEPT !.pc = "failed" ]
                          ELSE IF @.level = 3 THEN [ @ EXCEPT !.pc = "write" ]
                          ELSE [ @ EXCEPT !.pc = "chk", !.level = @ + 1 ] ]
    /\ UNCHANGED << inbox, outbox, outFiles, assignCount, writeCount, doneCount,
                    replies, sent >>
    /\ UnitFrame

\* lines 201-203, try { fs.mkdirSync(dir) } catch (err) {}
saveImage_mkdirSync(u) ==
    /\ mode = "pool" /\ unit[u].pc = "mk"
    /\ LET dir == DirOf(PathOf(unit[u].order[1]), unit[u].level)
       IN  /\ outDirs' = IF MkdirOk(outDirs, dir) THEN outDirs \cup {dir} ELSE outDirs
           /\ unit' = [ unit EXCEPT ![u] =
                          IF @.level = 3
                          THEN [ @ EXCEPT !.pc = "write",
                                          !.caught = @ \/ ~MkdirOk(outDirs, dir) ]
                          ELSE [ @ EXCEPT !.pc = "chk", !.level = @ + 1,
                                          !.caught = @ \/ ~MkdirOk(outDirs, dir) ] ]
    /\ UNCHANGED << inbox, outbox, outFiles, assignCount, writeCount, doneCount,
                    replies, sent >>
    /\ UnitFrame

\* lines 204-205: fs.writeFileSync; `delete this.outputPNG` names a property
\* the object never has, so outPNG stays as it is
saveImage_writeFileSync(u) ==
    /\ mode = "pool" /\ unit[u].pc = "write"
    /\ LET q == PathOf(unit[u].order[1])
       IN  IF WriteOk(outDirs, q)
           THEN /\ outFiles' = [ r \in DOMAIN outFiles \cup {q} |->
                                   IF r = q THEN PNGSyncWrite(unit[u].outPNG[1])
                                   ELSE outFiles[r] ]
                /\ writeCount' = Bump(writeCount, q)
                /\ unit' = [ unit EXCEPT ![u] = [ @ EXCEPT !.pc = "post" ] ]
           ELSE /\ unit' = [ unit EXCEPT ![u] = [ @ EXCEPT !.pc = "failed" ] ]
                /\ UNCHANGED << outFiles, writeCount >>
    /\ UNCHANGED << inbox, outbox, outDirs, assignCount, doneCount, replies, sent >>
    /\ UnitFrame

\* fault: buildTile returns after saveImage without posting
buildTile_post_silent(u) ==
    /\ mode = "pool" /\ unit[u].pc = "post"
    /\ unit' = [ unit EXCEPT ![u] = [ @ EXCEPT !.pc = "idle", !.order = << >>, !.level = 0,
                              !.caught = FALSE ] ]
    /\ UNCHANGED << inbox, outbox, outDirs, outFiles, assignCount, writeCount,
                    doneCount, replies, sent >>
    /\ UnitFrame

\* line 138: report the tile
buildTile_post(u) ==
    /\ mode = "pool" /\ unit[u].pc = "post"
    /\ Post(u, 138, ReadyBuilt, replies[u])
    /\ doneCount' = Bump(doneCount, PathOf(unit[u].order[1]))
    /\ unit' = [ unit EXCEPT ![u] = [ @ EXCEPT !.pc = "idle", !.order = << >>, !.level = 0,
                              !.caught = FALSE ] ]
    /\ UNCHANGED << inbox, outDirs, outFiles, assignCount, writeCount >>
    /\ UnitFrame

\* ------------------------------------------------------------- the dispatcher
\* The pool's dispatcher is not among the source files; it is modelled from
\* the protocol of the specification: a ready unit gets the next descriptor
\* of the queue, or is torn down when the queue is exhausted; a unit's failure
\* is recorded and its descriptor is not dispatched again.

DispFrame == UNCHANGED << options, srcFiles, outDirs, outFiles, mode, work, conv,
                          writeCount, doneCount, replies, sent, prevClean, call >>

Dispatch(u) ==
    /\ mode = "pool" /\ outbox[u] # << >> /\ unit[u].pc # "terminated"
    /\ disp.next <= Len(work)
    /\ outbox' = [ outbox EXCEPT ![u] = Tail(@) ]
    /\ inbox' = [ inbox EXCEPT ![u] = Append(@, BuildOrder(work[disp.next])) ]
    /\ disp' = [ disp EXCEPT !.next = @ + 1,
                             !.completed = IF Head(outbox[u]).built = << TRUE >>
                                           THEN @ + 1 ELSE @ ]
    /\ assignCount' = Bump(assignCount, PathOf(work[disp.next]))
    /\ UNCHANGED unit
    /\ DispFrame

Teardown(u) ==
    /\ mode = "pool" /\ outbox[u] # << >> /\ unit[u].pc # "terminated"
    /\ disp.next > Len(work)
    /\ outbox' = [ outbox EXCEPT ![u] = Tail(@) ]
    /\ disp' = [ disp EXCEPT !.completed = IF Head(outbox[u]).built = << TRUE >>
                                           THEN @ + 1 ELSE @ ]
    /\ unit' = [ unit EXCEPT ![u] = [ @ EXCEPT !.pc = "terminated" ] ]
    /\ UNCHANGED << inbox, assignCount >>
    /\ DispFrame

OnError(u) ==
    /\ mode = "pool" /\ unit[u].pc = "failed" /\ u \notin disp.errors
    /\ disp' = [ disp EXCEPT !.errors = @ \cup {u} ]
    /\ UNCHANGED << unit, inbox, outbox, assignCount >>
    /\ DispFrame

RunOver ==
    /\ \A u \in Units : unit[u].pc \in { "terminated", "failed" }
    /\ \A u \in Units : unit[u].pc = "failed" => u \in disp.errors

\* the pipeline is run again, with the same options, on the same output folder
NewRun ==
    /\ mode = "pool" /\ RunOver
    /\ prevClean' = ( /\ \A u \in Units : unit[u].pc = "terminated"
                      /\ work = TileWorkQueue(Cfg.outputZoom) )
    /\ unit' = [ u \in Units |-> FreshUnit ]
    /\ inbox' = [ u \in Units |-> << >> ]
    /\ outbox' = [ u \in Units |-> << Ready(<< >>) >> ]
    /\ disp' = FreshDisp
    /\ assignCount' = NoCounts
    /\ writeCount' = NoCounts
    /\ doneCount' = NoCounts
    /\ replies' = [ u \in Units |-> 1 ]
    /\ sent' = {}
    /\ UNCHANGED << options, srcFiles, outDirs, outFiles, mode, work, conv, call >>

\* ------------------------------------------------------ ToS2 (src/src/index.js)
\* One ToS2 instance; convert runs on one thread, so one iteration of its loop
\* over the tiles is one step.

ConvFrame == UNCHANGED << options, srcFiles, mode, work, unit, inbox, outbox, disp,
                          assignCount, replies, sent, call >>

\* convert(tiles): line 78 builds the full set when no tiles are given
convert_call ==
    /\ mode = "convert" /\ conv.pc \in { "ready", "returned", "threw" }
    /\ conv' = [ conv EXCEPT !.pc = "running", !.idx = 1,
                             !.tiles = IF work = TileWorkQueue(Cfg.outputZoom)
                                       THEN buildZoomSet(Cfg.outputZoom) ELSE work ]
    /\ prevClean' = ( conv.pc = "returned" /\ work = TileWorkQueue(Cfg.outputZoom) )
    /\ writeCount' = NoCounts
    /\ doneCount' = NoCounts
    /\ UNCHANGED << outDirs, outFiles >>
    /\ ConvFrame

ConvTile == conv.tiles[conv.idx]

ConvRunning == mode = "convert" /\ conv.pc = "running" /\ conv.idx <= Len(conv.tiles)

\* line 82: the output file exists
convert_exists ==
    /\ ConvRunning
    /\ tileExists(outFiles, ConvTile.face, ConvTile.zoom, ConvTile.x, ConvTile.y)
    /\ conv' = [ conv EXCEPT !.idx = @ + 1 ]
    /\ doneCount' = Bump(doneCount, PathOf(ConvTile))
    /\ UNCHANGED << outDirs, outFiles, writeCount, prevClean >>
    /\ ConvFrame

\* line 84: the sanity check on the zoom
convert_sanity ==
    /\ ConvRunning
    /\ ~tileExists(outFiles, ConvTile.face, ConvTile.zoom, ConvTile.x, ConvTile.y)
    /\ ConvTile.zoom # Cfg.outputZoom
    /\ conv' = [ conv EXCEPT !.idx = @ + 1 ]
    /\ doneCount' = Bump(doneCount, PathOf(ConvTile))
    /\ UNCHANGED << outDirs, outFiles, writeCount, prevClean >>
    /\ ConvFrame

\* the pixel loop of the current tile on the instance
ConvLoop == RunPixelLoop(Cfg, srcFiles, ConvTile, conv.inputImages, conv.outPNG)

ConvBuilds ==
    /\ ConvRunning
    /\ ~tileExists(outFiles, ConvTile.face, ConvTile.zoom, ConvTile.x, ConvTile.y)
    /\ ConvTile.zoom = Cfg.outputZoom

\* ToS2.saveImage lines 169-170: this.outPNG.data = buffer throws a TypeError
\* when outPNG was never set
ToS2_saveImage_throws(outPNG) == outPNG = << >>

\* lines 173-175: each missing directory level is created (one thread: a
\* directory found missing is still missing at its mkdirSync)
ToS2_mkdirs(dirs, q) == dirs \cup { DirOf(q, n) : n \in 1..3 }

\* lines 169-170: outPNG.data = Buffer.from(data)
ToS2_saveImage_prepare(outPNG, data) ==
    << [ k \in MetaFields \cup {"data"} |->
           IF k = "data" THEN BufferFrom(data) ELSE outPNG[1][k] ] >>

\* lines 85-124, the tile is built and written
convert_build ==
    /\ ConvBuilds
    /\ \E r \in { ConvLoop } :
         /\ ~r.threw /\ ~ToS2_saveImage_throws(r.outPNG)
         /\ \E png \in { ToS2_saveImage_prepare(r.outPNG, r.outputData) } :
              /\ conv' = [ conv EXCEPT !.idx = @ + 1, !.inputImages = EmptyImages,
                                       !.outPNG = png ]
              /\ outFiles' = [ q \in DOMAIN outFiles \cup { PathOf(ConvTile) } |->
                                 IF q = PathOf(ConvTile) THEN PNGSyncWrite(png[1])
                                 ELSE outFiles[q] ]
    /\ outDirs' = ToS2_mkdirs(outDirs, PathOf(ConvTile))
    /\ writeCount' = Bump(writeCount, PathOf(ConvTile))
    /\ doneCount' = Bump(doneCount, PathOf(ConvTile))
    /\ UNCHANGED prevClean
    /\ ConvFrame

\* PNG.sync.read throws inside the pixel loop: convert ends with the
\* exception, the cache keeps what was loaded
convert_read_throws ==
    /\ ConvBuilds
    /\ \E r \in { ConvLoop } :
         /\ r.threw
         /\ conv' = [ conv EXCEPT !.pc = "threw", !.inputImages = r.images,
                                  !.outPNG = r.outPNG ]
    /\ UNCHANGED << outDirs, outFiles, writeCount, doneCount, prevClean >>
    /\ ConvFrame

\* the loop and flush() complete, saveImage throws on the unset outPNG
convert_save_throws ==
    /\ ConvBuilds
    /\ \E r \in { ConvLoop } :
         /\ ~r.threw /\ ToS2_saveImage_throws(r.outPNG)
    /\ conv' = [ conv EXCEPT !.pc = "threw", !.inputImages = EmptyImages ]
    /\ UNCHANGED << outDirs, outFiles, writeCount, doneCount, prevClean >>
    /\ ConvFrame

\* the loop over the tiles is over
convert_return ==
    /\ mode = "convert" /\ conv.pc = "running" /\ conv.idx > Len(conv.tiles)
    /\ conv' = [ conv EXCEPT !.pc = "returned" ]
    /\ UNCHANGED << outDirs, outFiles, writeCount, doneCount, prevClean >>
    /\ ConvFrame

\* ------------------------------------------------------------ specification
UnitNext(u) ==
    \/ buildTile_exists(u)
    \/ buildTile_sanity(u)
    \/ buildTile_loop(u)
    \/ flush(u)
    \/ saveImage_existsSync(u)
    \/ saveImage_mkdirSync(u)
    \/ saveImage_writeFileSync(u)
    \/ buildTile_post(u)

PoolNext ==
    \/ \E u \in Units : UnitNext(u)
    \/ \E u \in Units : Dispatch(u)
    \/ \E u \in Units : Teardown(u)
    \/ \E u \in Units : OnError(u)
    \/ NewRun

ConvNext ==
    \/ convert_call
    \/ convert_exists
    \/ convert_sanity
    \/ convert_build
    \/ convert_read_throws
    \/ convert_save_throws
    \/ convert_return

Next == PoolNext \/ ConvNext

Spec == Init /\ [][Next]_vars

\* --------------------------------------------------------------- properties
Last(seq) == seq[Len(seq)]

TileOfPath(q) == [ face |-> q[1], zoom |-> q[2], x |-> q[3], y |-> q[4] ]

\* the source file sampled by pixel number n of a tile
SrcPathOf(tile, n) ==
    LET a == SourceAddr(Cfg, tile.face, tile.zoom, tile.x, tile.y,
                        n % Cfg.tileSize, n \div Cfg.tileSize)
    IN  << Cfg.inputZoom, a.tileX, a.tileY >>

PixelsOf(tile) == 0..(Cfg.tileSize * Cfg.tileSize - 1)

\* every source tile the output tile samples is absent
AllAbsent(tile) == \A n \in PixelsOf(tile) : SrcPathOf(tile, n) \notin DOMAIN srcFiles

\* the output paths written in the current run
Written == DOMAIN writeCount

\* what an instance that has processed nothing before persists for a tile:
\* << raster >>, or << >> when it throws
FreshOutcome(tile) ==
    CHOOSE o \in
        { IF r.threw THEN << >>
          ELSE IF mode = "pool"
               THEN << PNGSyncWrite(saveImage_prepare(r.outPNG, r.outputData)[1]) >>
               ELSE IF ToS2_saveImage_throws(r.outPNG) THEN << >>
                    ELSE << PNGSyncWrite(ToS2_saveImage_prepare(r.outPNG, r.outputData)[1]) >> :
          r \in { RunPixelLoop(Cfg, srcFiles, tile, EmptyImages, << >>) } } : TRUE

\* C1: for a fixed descriptor, configuration and source pyramid the persisted
\* raster (bytes and metadata) is the one a fresh instance produces, whatever
\* tiles the unit or converter processed before.
C1_Deterministic ==
    \A q \in Written : << outFiles[q] >> = FreshOutcome(TileOfPath(q))

\* C2: a missing source tile is never an error: no unit and no convert call
\* fails on a tile all of whose source tiles are absent, and in every raster
\* written each pixel that samples a missing source tile holds defaultColor.
C2_MissingNeverFails ==
    /\ \A u \in Units :
         unit[u].pc = "failed" => ~AllAbsent(unit[u].order[1])
    /\ conv.pc = "threw" => ~AllAbsent(conv.tiles[conv.idx])
    /\ \A q \in Written : \A n \in PixelsOf(TileOfPath(q)) :
         SrcPathOf(TileOfPath(q), n) \notin DOMAIN srcFiles =>
           \A c \in 1..4 :
             outFiles[q].data[OutIdx(Cfg.tileSize, n % Cfg.tileSize,
                                     n \div Cfg.tileSize) + c]
               = Cfg.defaultColor[c]

\* unit u takes the work order at the head of its inbox in this step
Takes(u) == inbox[u] # << >> /\ inbox'[u] = Tail(inbox[u])

\* C3: when the output file of a descriptor exists as the descriptor is
\* processed, the step leaves the output store, the unit's cache, metadata and
\* output array as they are, writes nothing, and the unit posts one ready
\* message (convert moves on to the next tile).
C3_ExistingLeftAlone ==
    [][ /\ \A u \in Units :
             ( Takes(u) /\ PathOf(Head(inbox[u]).s2tile) \in DOMAIN outFiles ) =>
               /\ outFiles' = outFiles /\ outDirs' = outDirs
               /\ writeCount' = writeCount
               /\ unit'[u] = unit[u]
               /\ Len(outbox'[u]) = Len(outbox[u]) + 1
               /\ Last(outbox'[u]).status = "ready"
        /\ ( /\ conv.pc = "running" /\ conv.idx <= Len(conv.tiles)
             /\ PathOf(conv.tiles[conv.idx]) \in DOMAIN outFiles
             /\ conv' # conv ) =>
               /\ outFiles' = outFiles /\ outDirs' = outDirs
               /\ writeCount' = writeCount
               /\ conv' = [ conv EXCEPT !.idx = @ + 1 ]
      ]_vars

\* a descriptor was completed in this run without a write, its file being the
\* raster that was there before
C3_Witness ==
    \E q \in DOMAIN doneCount :
        /\ q \notin Written
        /\ q \in DOMAIN outFiles /\ outFiles[q] = OldRaster

\* each descriptor of the work list was completed once in this run
RunComplete == \A t \in 1..Len(work) : Count(doneCount, PathOf(work[t])) = 1

\* C4: in a run that follows a full run completed without failure, with the
\* same configuration and output folder, no file or directory is created,
\* modified or deleted, nothing is written, no unit or convert call enters the
\* pixel loop or fails: each descriptor is skipped.
C4_SecondRunSkips ==
    [][ prevClean' =>
          /\ outFiles' = outFiles /\ outDirs' = outDirs
          /\ writeCount' = NoCounts
          /\ \A u \in Units : unit'[u].pc \in { "idle", "terminated" }
          /\ \A u \in Units : unit'[u].inputImages = EmptyImages
          /\ conv'.pc \in { "ready", "running", "returned" }
          /\ \A m \in sent' : m.line = 94
      ]_vars

\* a second convert() over the full set returned, every descriptor skipped
C4_Witness ==
    /\ mode = "convert" /\ prevClean /\ RunComplete /\ conv.pc = "returned"
    /\ work = TileWorkQueue(Cfg.outputZoom) /\ DOMAIN doneCount = DOMAIN outFiles

\* the same for the pool: the second run is over, every unit torn down
C4_WitnessPool ==
    /\ mode = "pool" /\ prevClean /\ RunComplete
    /\ \A u \in Units : unit[u].pc = "terminated"

\* the states of a unit inside buildTile after the pixel loop
Saving == { "flush", "chk", "mk", "write", "post" }

\* C5: a unit that is idle has posted exactly one ready message for the work
\* order it handled last (built, skipped for its file, skipped for its zoom);
\* while it builds it has posted nothing, when it is about to post for a built
\* tile the file is in the output store, a unit that threw posted nothing; and
\* a work order is taken only by an idle unit that answered the one before.
C5_OneReadyPerOrder ==
    /\ [] ( \A u \in Units :
              /\ unit[u].pc \in { "idle", "terminated" } => replies[u] = 1
              /\ unit[u].pc \in Saving \cup { "failed" } => replies[u] = 0
              /\ unit[u].pc = "post" =>
                   /\ PathOf(unit[u].order[1]) \in DOMAIN outFiles
                   /\ Count(writeCount, PathOf(unit[u].order[1])) = 1 )
    /\ [][ \A u \in Units :
             /\ Takes(u) => unit[u].pc = "idle" /\ replies[u] = 1
             /\ Len(outbox'[u]) > Len(outbox[u]) =>
                  /\ Len(outbox'[u]) = Len(outbox[u]) + 1
                  /\ Last(outbox'[u]).status = "ready"
         ]_vars

\* all three outcomes were reported in one run
C5_Witness ==
    /\ { m.line : m \in sent } = { 94, 97, 138 }
    /\ \E u \in Units : unit[u].pc = "idle" /\ replies[u] = 1 /\ outbox[u] # << >>

\* C6: in a run each output path is assigned at most once and written at
\* most once, also after a unit failed on it, and no two units are building
\* the same descriptor at the same time.
C6_NoSharedPath ==
    /\ \A q \in DOMAIN assignCount : assignCount[q] <= 1
    /\ \A q \in DOMAIN writeCount : writeCount[q] <= 1
    /\ \A u, v \in Units :
         ( u # v /\ unit[u].order # << >> /\ unit[v].order # << >> ) =>
           PathOf(unit[u].order[1]) # PathOf(unit[v].order[1])
    /\ \A u, v \in Units :
         ( u # v /\ inbox[u] # << >> /\ unit[v].order # << >> ) =>
           PathOf(Head(inbox[u]).s2tile) # PathOf(unit[v].order[1])

\* a unit failed on a descriptor, the whole queue was handed out, the
\* descriptor was assigned once and has no file
C6_Witness ==
    /\ disp.next > Len(work)
    /\ \E u \in Units :
         /\ unit[u].pc = "failed" /\ u \in disp.errors
         /\ assignCount[PathOf(unit[u].order[1])] = 1
         /\ PathOf(unit[u].order[1]) \notin DOMAIN outFiles
    /\ \E v \in Units : unit[v].pc = "terminated"

\* ---------------------------------------------------------------- fairness
\* Every unit is a thread of its own and runs its handler to the end; the
\* dispatcher's event loop handles every message and error event it
\* receives.  Nothing obliges anybody to start another run.
FairSpec ==
    /\ Spec
    /\ \A u \in Units : WF_vars(UnitNext(u))
    /\ \A u \in Units : WF_vars(Dispatch(u) \/ Teardown(u) \/ OnError(u))

AnyFailed == \E u \in Units : unit[u].pc = "failed"

\* the queue is exhausted, every unit is torn down, every descriptor of the
\* queue was completed once (6 * 4^outputZoom of them for the full set)
Drained ==
    /\ disp.next > Len(work)
    /\ \A u \in Units : unit[u].pc = "terminated"
    /\ RunComplete
    /\ Cardinality(DOMAIN doneCount) = Len(work)
    /\ work = TileWorkQueue(Cfg.outputZoom) =>
         Len(work) = 6 * Pow2(Cfg.outputZoom) * Pow2(Cfg.outputZoom)

\* C7: every run of the pool leads to a state where the queue is exhausted,
\* all units are torn down and each descriptor was completed exactly once,
\* unless a unit fails; no descriptor is ever completed twice; a unit is torn
\* down only when it is idle with no order pending and the queue is exhausted.
C7_RunDrains ==
    /\ [] ( mode = "pool" => <> ( Drained \/ AnyFailed ) )
    /\ [] ( \A q \in DOMAIN doneCount : doneCount[q] = 1 )
    /\ [][ \A u \in Units :
             ( unit[u].pc # "terminated" /\ unit'[u].pc = "terminated" ) =>
               /\ unit[u].pc = "idle" /\ inbox[u] = << >>
               /\ replies[u] = 1
               /\ disp.next > Len(work)
         ]_vars

\* a run over the full queue drained, with tiles built and tiles skipped
C7_Witness ==
    /\ mode = "pool" /\ Drained /\ ~AnyFailed
    /\ work = TileWorkQueue(Cfg.outputZoom)
    /\ Written # {} /\ DOMAIN doneCount \ Written # {}

\* ------------------------------------------------ the work set, zoom by zoom
\* convert() without a tile list, for each output zoom 0..MaxEnumZoom, over a
\* pyramid that has every source tile; convert is called again when it
\* returned.
ZoomSetInit ==
    /\ \E z \in 0..MaxEnumZoom : options = OptionsOf(1, z)
    /\ mode = "convert"
    /\ srcFiles = Pyramid("full", Cfg.inputZoom, Cfg.tileSize)
    /\ outFiles = [ r \in {} |-> OldRaster ]
    /\ outDirs = {}
    /\ work = TileWorkQueue(Cfg.outputZoom)
    /\ unit = [ u \in Units |-> FreshUnit ]
    /\ inbox = [ u \in Units |-> << >> ]
    /\ outbox = [ u \in Units |-> << >> ]
    /\ disp = FreshDisp
    /\ conv = FreshConv
    /\ assignCount = NoCounts
    /\ writeCount = NoCounts
    /\ doneCount = NoCounts
    /\ replies = [ u \in Units |-> 1 ]
    /\ sent = {}
    /\ prevClean = FALSE
    /\ call = NoCall

ZoomSetNext ==
    \/ convert_call
    \/ convert_exists
    \/ convert_build
    \/ convert_return

SpecZoomSet == ZoomSetInit /\ [][ZoomSetNext]_vars

\* C8: the tiles convert() enumerates for zoom z are 6 * 4^z descriptors, all
\* of zoom z, the k-th being face (k-1) div 4^z, y ((k-1) div 2^z) mod 2^z,
\* x (k-1) mod 2^z (face outermost, then y, then x), and every (face, x, y)
\* with face in 0..5 and x, y in 0..2^z-1 occurs exactly once.
C8_ZoomSet ==
    conv.pc # "ready" =>
      LET z == Cfg.outputZoom
          n == Pow2(z)
          tiles == conv.tiles
      IN  /\ Len(tiles) = 6 * n * n
          /\ \A k \in 1..Len(tiles) :
               tiles[k] = [ face |-> (k - 1) \div (n * n), zoom |-> z,
                            y |-> ((k - 1) \div n) % n, x |-> (k - 1) % n ]
          /\ \A f \in 0..5 : \A x \in 0..(n - 1) : \A y \in 0..(n - 1) :
               Cardinality({ k \in 1..Len(tiles) :
                               tiles[k].face = f /\ tiles[k].x = x /\ tiles[k].y = y }) = 1

\* the set of the largest zoom was enumerated and every tile of it written
C8_Witness ==
    /\ Cfg.outputZoom = MaxEnumZoom /\ conv.pc = "returned"
    /\ Len(conv.tiles) > 6
    /\ \A k \in 1..Len(conv.tiles) : PathOf(conv.tiles[k]) \in Written

\* C9 as stated: the built flag posted after writing a new tile (line 138)
\* differs from the one posted for a tile whose file already existed
\* (line 94).
C9_FlagTellsNewFromExisting ==
    \A a, b \in sent : ( a.line = 138 /\ b.line = 94 ) => a.built # b.built

\* unit u posts a message of buildTile in this step
PostsFor(u) ==
    /\ Len(outbox'[u]) = Len(outbox[u]) + 1
    /\ unit[u].pc \in { "idle", "post" }

\* the descriptor the message is about
PostedTile(u) ==
    IF unit[u].pc = "post" THEN unit[u].order[1] ELSE Head(inbox[u]).s2tile

\* C9: built is true exactly when the file of the descriptor exists as the
\* message is posted, whether the unit wrote it (line 138) or found it
\* (line 94); the property is absent only for a descriptor skipped for its
\* zoom (line 97).
C9_FlagTellsFileExists ==
    /\ [] ( \A m \in sent : ( m.built = << TRUE >> ) <=> ( m.line \in { 94, 138 } ) )
    /\ [] ( \A m \in sent : m.built = << >> <=> m.line = 97 )
    /\ [][ \A u \in Units : PostsFor(u) =>
             ( ( Last(outbox'[u]).built = << TRUE >> )
                 <=> ( PathOf(PostedTile(u)) \in DOMAIN outFiles' ) )
         ]_vars

\* a written tile and an existing tile were reported with the same flag, a
\* skipped descriptor without it
C9_Witness ==
    \E a, b, c \in sent :
        /\ a.line = 138 /\ b.line = 94 /\ c.line = 97
        /\ a.built = b.built /\ c.built # a.built

\* C10: every raster written declares width = height = tileSize and holds
\* tileSize * tileSize * 4 bytes.
C10_DeclaredSize ==
    \A q \in Written :
        /\ outFiles[q].width = Cfg.tileSize
        /\ outFiles[q].height = Cfg.tileSize
        /\ Len(outFiles[q].data) = Cfg.tileSize * Cfg.tileSize * 4

\* ------------------------------------------------------ direct calls: options
\* The shared part of the initial states of the specifications that call a
\* constructor or a helper directly: no pool, no conversion under way.
QuietInit ==
    /\ srcFiles = Pyramid("empty", 1, 1)
    /\ outFiles = [ r \in {} |-> OldRaster ]
    /\ outDirs = {}
    /\ work = << >>
    /\ unit = [ u \in Units |-> FreshUnit ]
    /\ inbox = [ u \in Units |-> << >> ]
    /\ outbox = [ u \in Units |-> << >> ]
    /\ disp = FreshDisp
    /\ conv = FreshConv
    /\ assignCount = NoCounts
    /\ writeCount = NoCounts
    /\ doneCount = NoCounts
    /\ replies = [ u \in Units |-> 1 ]
    /\ sent = {}
    /\ prevClean = FALSE
    /\ call = NoCall

QuietFrame ==
    UNCHANGED << options, srcFiles, outDirs, outFiles, mode, work, unit, inbox,
                 outbox, disp, conv, assignCount, writeCount, doneCount, replies,
                 sent, prevClean >>

\* the values an option may take within its documented domain
OptionValues(k) ==
    CASE k = "inputZoom"    -> { 0, 1, 3 }
      [] k = "outputZoom"   -> { 0, 1 }
      [] k = "tileSize"     -> 1..MaxTileSize
      [] k = "tmsStyle"     -> BOOLEAN
      [] k = "srs"          -> { "WGS84", "900913" }
      [] OTHER              -> { << 0, 0, 0, 0 >> }

\* the objects that supply option k or do not
OptionOf(k) == { [ x \in {} |-> 0 ] } \cup { k :> v : v \in OptionValues(k) }

\* every Options object: each option supplied with a value of its domain, or
\* left out
OptionObjects ==
    { a @@ b @@ c @@ d @@ e @@ f :
        a \in OptionOf("inputZoom"), b \in OptionOf("outputZoom"),
        c \in OptionOf("tileSize"), d \in OptionOf("tmsStyle"),
        e \in OptionOf("srs"), f \in OptionOf("defaultColor") }

ConstructInit ==
    /\ options \in OptionObjects
    /\ mode = "construct"
    /\ QuietInit

\* new Worker() / new ToS2(options): the fields after the constructor
constructor ==
    /\ call.op = "none"
    /\ call' = [ op |-> "constructor", fields |-> Construct(options) ]
    /\ QuietFrame

SpecConstruct == ConstructInit /\ [][constructor]_vars

\* the class field defaults
FieldDefaults ==
    [ inputZoom |-> DefaultInputZoom, outputZoom |-> DefaultOutputZoom,
      tileSize |-> DefaultTileSize, tmsStyle |-> TRUE, srs |-> "900913",
      defaultColor |-> DefaultColor ]

\* C11: after the constructor every supplied option is the value of its
\* field, every option not supplied has the default, and maxPixelSize is
\* 2^inputZoom * tileSize of the fields.
C11_OptionsEffective ==
    call.op = "constructor" =>
      /\ \A k \in DOMAIN FieldDefaults :
           call.fields[k] = IF k \in DOMAIN options THEN options[k]
                            ELSE FieldDefaults[k]
      /\ call.fields.maxPixelSize
           = Pow2(call.fields.inputZoom) * call.fields.tileSize

\* ------------------------------------------------ direct calls: pixel address
\* Options of the address computations: the zooms 1 and 3, the default zoom,
\* and the largest supported zoom, 31 (with tileSize 1).
AddressOptions ==
    { [ inputZoom |-> z, tileSize |-> t ] : z \in { 1, 3 }, t \in 1..MaxTileSize }
      \cup { [ tileSize |-> t ] : t \in 1..MaxTileSize }
      \cup { [ inputZoom |-> 31, tileSize |-> 1 ] }

AddressInit ==
    /\ options \in AddressOptions
    /\ mode = "address"
    /\ QuietInit

\* lines 107-112: the geographic position of output pixel (i, j) before the
\* latitude clamp
RawLonLat(cfg, face, zoom, x, y, i, j) ==
    LET bbox == bboxST(x, y, zoom)
    IN  Normalize(LonLatFromFaceST(face,
                                   STnum(bbox[1], bbox[3], i, cfg.tileSize),
                                   STnum(bbox[2], bbox[4], j, cfg.tileSize),
                                   Pow2(zoom) * cfg.tileSize))

\* lines 107-126 of buildTile for one output pixel of one tile: the position,
\* the position handed to merc.px, the address it returns, the pinned
\* address, and the source tile and offsets.  At inputZoom 31 maxPixelSize is
\* 1 << 31 = -2147483648 and the pinned address maxPixelSize - 1 has no
\* 32-bit value: the step is taken for the positive sizes.
pixelAddress ==
    /\ call.op = "constructor"
    /\ call.fields.maxPixelSize > 0
    /\ \E face \in 0..5, zoom \in 0..1 :
       \E x \in 0..(Pow2(zoom) - 1), y \in 0..(Pow2(zoom) - 1) :
       \E i \in 0..(call.fields.tileSize - 1), j \in 0..(call.fields.tileSize - 1) :
       \E raw \in { RawLonLat(call.fields, face, zoom, x, y, i, j) } :
       \E px \in PxOf(call.fields, face, zoom, x, y, i, j) :
          call' = [ op |-> "px", fields |-> call.fields,
                    face |-> face, i |-> i, j |-> j,
                    raw |-> raw, ll |-> ClampLat(raw), px |-> px,
                    pinned |-> << ClampPx(px[1], call.fields.maxPixelSize),
                                  ClampPx(px[2], call.fields.maxPixelSize) >>,
                    addr |-> SourceAddr(call.fields, face, zoom, x, y, i, j) ]
    /\ QuietFrame

AddressNext == constructor \/ pixelAddress

SpecAddress == AddressInit /\ [][AddressNext]_vars

\* C12: maxPixelSize is 2^inputZoom * tileSize (a positive number) for every
\* inputZoom, and for every output pixel the address used for the lookup is
\* the address of merc.px pinned into [0, maxPixelSize): the source tile
\* coordinates are in [0, 2^inputZoom) and the offsets in [0, tileSize).
C12_AddressInRange ==
    /\ call.op \in { "constructor", "px" } =>
         /\ call.fields.maxPixelSize > 0
         /\ call.fields.maxPixelSize
              = Pow2(call.fields.inputZoom) * call.fields.tileSize
    /\ call.op = "px" =>
         \A a \in 1..2 :
           /\ call.pinned[a] >= 0 /\ call.pinned[a] < call.fields.maxPixelSize
           /\ call.pinned[a] = IF call.px[a] < 0 THEN 0
                               ELSE IF call.px[a] >= call.fields.maxPixelSize
                                    THEN call.fields.maxPixelSize - 1
                                    ELSE call.px[a]
           /\ call.addr.tileX = call.pinned[1] \div call.fields.tileSize
           /\ call.addr.tileY = call.pinned[2] \div call.fields.tileSize
           /\ call.addr.tileXPos = call.pinned[1] % call.fields.tileSize
           /\ call.addr.tileYPos = call.pinned[2] % call.fields.tileSize
           /\ call.addr.tileX >= 0 /\ call.addr.tileX < Pow2(call.fields.inputZoom)
           /\ call.addr.tileY >= 0 /\ call.addr.tileY < Pow2(call.fields.inputZoom)
           /\ call.addr.tileXPos >= 0 /\ call.addr.tileXPos < call.fields.tileSize
           /\ call.addr.tileYPos >= 0 /\ call.addr.tileYPos < call.fields.tileSize

\* C13: a latitude outside [-85.05, 85.05] reaches merc.px as -85.05 or 85.05
\* with the sign of the original latitude, a latitude inside unchanged; the
\* longitude is untouched and the address is the one of the clamped position.
C13_LatitudeClamped ==
    call.op = "px" =>
      /\ call.ll[1] = call.raw[1]
      /\ call.raw[2] > LAT_BOUND => call.ll[2] = LAT_BOUND
      /\ call.raw[2] < -LAT_BOUND => call.ll[2] = -LAT_BOUND
      /\ (call.raw[2] >= -LAT_BOUND /\ call.raw[2] <= LAT_BOUND)
           => call.ll[2] = call.raw[2]
      /\ call.px = MercPx(call.ll, call.fields.inputZoom, call.fields.tileSize)

\* an output pixel south of -85.05 got its address
C13_Witness ==
    /\ call.op = "px"
    /\ call.raw[2] < -LAT_BOUND
    /\ call.ll[2] = -LAT_BOUND
    /\ call.pinned[2] = call.fields.maxPixelSize - 1

\* ---------------------------------------------------------- output metadata
\* the metadata of the first source raster loaded while building `tile` with
\* an empty cache, or the hard-coded default when the tile loads none
TileMeta(tile) ==
    CHOOSE d \in
        { IF r.outPNG = << >> THEN DefaultOutPNG ELSE r.outPNG[1] :
          r \in { RunPixelLoop(Cfg, srcFiles, tile, EmptyImages, << >>) } } : TRUE

\* C14: the metadata of every tile written is the metadata of the first source
\* raster loaded while building that same tile, or the hard-coded default
\* when the tile loaded none; it never comes from a tile built earlier.
C14_MetadataOfOwnTile ==
    \A q \in Written :
      [ k \in MetaFields |-> outFiles[q][k] ] = TileMeta(TileOfPath(q))

\* --------------------------------------------- direct calls: getPixel, flush
\* a pyramid whose rasters are wider than the tile size: every tile present,
\* 2T x T pixels
WideTile(T, p) ==
    GoodFile(MkPNG(2 * T, T, 8, 6, SeedData(2 * T, T, 1 + p[2] + 4 * p[3])))

WidePyramid(z, T) == [ p \in SourcePaths(z) |-> WideTile(T, p) ]

CacheInit ==
    /\ options \in { [ inputZoom |-> 1, tileSize |-> t ] : t \in 1..MaxTileSize }
    /\ mode = "cache"
    /\ QuietInit

\* the source pyramids of the direct calls, for the instance's fields
CachePyramids(cfg) ==
    { Pyramid(n, cfg.inputZoom, cfg.tileSize) : n \in { "full", "west", "corrupt" } }
      \cup { WidePyramid(cfg.inputZoom, cfg.tileSize) }

\* the instance's cache and outPNG between two direct calls
CallImages == IF call.op \in { "getPixel", "flush" } THEN call.images ELSE EmptyImages

CallOutPNG == IF call.op \in { "getPixel", "flush" } THEN call.outPNG ELSE << >>

\* one call of getPixel on the instance, over one of the pyramids; a call
\* that throws leaves the instance as it was
getPixel_call ==
    /\ call.op \in { "constructor", "getPixel", "flush" }
    /\ \E files \in CachePyramids(call.fields) :
       \E tileX \in 0..(Pow2(call.fields.inputZoom) - 1),
          tileY \in 0..(Pow2(call.fields.inputZoom) - 1),
          tileXPos \in 0..(call.fields.tileSize - 1),
          tileYPos \in 0..(call.fields.tileSize - 1) :
       \E r \in { getPixel(call.fields, files, CallImages, CallOutPNG,
                           tileX, tileY, tileXPos, tileYPos) } :
          /\ call.op # "constructor" => files = call.files
          /\ call' = [ op |-> "getPixel", fields |-> call.fields, files |-> files,
                       images |-> r.images, outPNG |-> r.outPNG,
                       tileX |-> tileX, tileY |-> tileY,
                       tileXPos |-> tileXPos, tileYPos |-> tileYPos,
                       hit |-> toID(call.fields.inputZoom, tileX, tileY)
                                 \in DOMAIN CallImages,
                       rgba |-> r.rgba, threw |-> r.threw ]
    /\ QuietFrame

\* one call of flush on the instance
flush_call ==
    /\ call.op = "getPixel"
    /\ call' = [ op |-> "flush", fields |-> call.fields, files |-> call.files,
                 images |-> EmptyImages, outPNG |-> call.outPNG ]
    /\ QuietFrame

CacheNext == constructor \/ getPixel_call \/ flush_call

SpecCache == CacheInit /\ [][CacheNext]_vars

\* lines 147-152 and 172-173 without the cache: the file of the source tile
\* is read and decoded, and the four bytes at the index are returned
ReadDirect(cfg, files, tileX, tileY, tileXPos, tileYPos) ==
    LET path == << cfg.inputZoom, tileX, tileY >>
        idx  == Shl32(cfg.tileSize * tileYPos + tileXPos, 2)
    IN  IF path \notin DOMAIN files
        THEN [ rgba |-> cfg.defaultColor, threw |-> FALSE ]
        ELSE IF ~files[path].ok
        THEN [ rgba |-> cfg.defaultColor, threw |-> TRUE ]
        ELSE [ rgba |-> [ c \in 1..4 |-> ByteAt(files[path].png.data, idx + c - 1) ],
               threw |-> FALSE ]

\* C15: whatever calls of getPixel and flush came before, getPixel returns
\* what reading the source tile's file directly gives (defaultColor when the
\* file is absent), and it throws exactly when the direct read throws.
C15_CacheIsTransparent ==
    call.op = "getPixel" =>
      /\ call.threw = ReadDirect(call.fields, call.files, call.tileX, call.tileY,
                                 call.tileXPos, call.tileYPos).threw
      /\ ~call.threw =>
           call.rgba = ReadDirect(call.fields, call.files, call.tileX, call.tileY,
                                  call.tileXPos, call.tileYPos).rgba

\* a value was served from a cache that holds several rasters
C15_Witness ==
    /\ call.op = "getPixel"
    /\ call.hit
    /\ Cardinality(DOMAIN call.images) >= 2
    /\ call.rgba # call.fields.defaultColor

\* the four bytes of the pixel at row `row`, column `col` of a decoded raster:
\* rows top to bottom, `width` pixels of 4 bytes per row
PixelAt(png, row, col) ==
    [ c \in 1..4 |-> ByteAt(png.data, 4 * (png.width * row + col) + c - 1) ]

\* C18: for a source raster that exists, getPixel returns the four bytes of
\* the raster's pixel at row tileYPos, column tileXPos, whatever the width of
\* the raster.
C18_RowMajorPixel ==
    ( /\ call.op = "getPixel"
      /\ ~call.threw
      /\ << call.fields.inputZoom, call.tileX, call.tileY >> \in DOMAIN call.files )
    => call.rgba
         = PixelAt(call.files[<< call.fields.inputZoom, call.tileX, call.tileY >>].png,
                   call.tileYPos, call.tileXPos)

\* ------------------------------------------------------- directory creation
\* C16: a unit that is creating a directory of its output path never fails
\* in that step, whether the directory was created meanwhile by another unit
\* or not, and its write that follows stores the file.
C16_MkdirRaceTolerated ==
    [][ \A u \in Units :
          /\ unit[u].pc = "mk" => unit'[u].pc # "failed"
          /\ ( unit[u].pc = "write" /\ unit'[u].pc # "write" ) =>
               /\ unit'[u].pc = "post"
               /\ PathOf(unit[u].order[1]) \in DOMAIN outFiles' ]_vars

\* two units have written two files of one directory, and one of them found
\* a directory of the path created under its feet
C16_Witness ==
    \E u \in Units, v \in Units :
      /\ u # v
      /\ unit[u].pc = "post" /\ unit[v].pc = "post"
      /\ unit[u].caught
      /\ PathOf(unit[u].order[1]) # PathOf(unit[v].order[1])
      /\ DirOf(PathOf(unit[u].order[1]), 3) = DirOf(PathOf(unit[v].order[1]), 3)
      /\ PathOf(unit[u].order[1]) \in DOMAIN outFiles
      /\ PathOf(unit[v].order[1]) \in DOMAIN outFiles

\* ------------------------------------------------------------ cache lifetime
\* C17: whenever a unit reports ready (at start-up, after a built tile and
\* after a skipped descriptor) its cache of source rasters is empty.
C17_ReadyWithEmptyCache ==
    /\ \A u \in Units : outbox[u] # << >> => unit[u].inputImages = EmptyImages
    /\ [][ \A u \in Units :
             Len(outbox'[u]) > Len(outbox[u]) =>
               unit'[u].inputImages = EmptyImages ]_vars

\* a unit has reported a tile for which it had loaded a source raster, and
\* holds no raster
C17_Witness ==
    \E u \in Units :
      /\ unit[u].pc = "idle"
      /\ outbox[u] # << >> /\ Last(outbox[u]) = ReadyBuilt
      /\ \E e \in sent : e.line = 138
      /\ unit[u].outPNG # << >> /\ unit[u].outPNG[1].depth = 16
      /\ unit[u].inputImages = EmptyImages

\* ------------------------------------------------ direct calls: pixel loop
LoopInit ==
    /\ options \in { [ inputZoom |-> 1, tileSize |-> t ] : t \in 1..MaxTileSize }
    /\ mode = "loop"
    /\ QuietInit

\* lines 130-133: the entries of outputData assigned for loop indices (i, j)
StoredEntries(tileSize, i, j) == { OutIdx(tileSize, i, j) + c : c \in 0..3 }

\* lines 99-101 of buildTile for one tile of zoom 0, over one of the
\* pyramids: the output array is allocated, no entry of it assigned yet
buildTile_begin ==
    /\ call.op = "constructor"
    /\ \E files \in CachePyramids(call.fields), face \in 0..5 :
         call' = [ op |-> "loop", fields |-> call.fields, files |-> files,
                   tile |-> [ face |-> face, zoom |-> 0, x |-> 0, y |-> 0 ],
                   n |-> 0,
                   st |-> [ images |-> EmptyImages, outPNG |-> << >>,
                            outputData |-> NewOutputData(call.fields.tileSize),
                            threw |-> FALSE ],
                   rgba |-> << >>,
                   count |-> [ k \in 1..(4 * call.fields.tileSize * call.fields.tileSize)
                                 |-> 0 ] ]
    /\ QuietFrame

\* lines 104-133: one iteration of the loop, for pixel number n; rgba is the
\* value getPixel returned in it, count the number of assignments to each
\* entry of outputData so far
buildTile_iteration ==
    /\ call.op = "loop" /\ ~call.st.threw
    /\ call.n < call.fields.tileSize * call.fields.tileSize
    /\ \E i \in { call.n % call.fields.tileSize },
          j \in { call.n \div call.fields.tileSize } :
       \E a \in { SourceAddr(call.fields, call.tile.face, call.tile.zoom,
                             call.tile.x, call.tile.y, i, j) } :
       \E g \in { getPixel(call.fields, call.files, call.st.images, call.st.outPNG,
                           a.tileX, a.tileY, a.tileXPos, a.tileYPos) } :
       \E s2 \in { PixelStep(call.fields, call.files, call.tile, call.n, call.st) } :
          call' = [ call EXCEPT
                      !.n = @ + 1, !.st = s2, !.rgba = g.rgba,
                      !.count = [ k \in DOMAIN @ |->
                                    IF ~g.threw
                                       /\ (k - 1) \in StoredEntries(call.fields.tileSize, i, j)
                                    THEN @[k] + 1 ELSE @[k] ] ]
    /\ QuietFrame

LoopNext == constructor \/ buildTile_begin \/ buildTile_iteration

SpecLoop == LoopInit /\ [][LoopNext]_vars

\* C19: the value sampled for loop indices (i, j) is stored at row
\* tileSize - 1 - j, column i of the output array; no entry is assigned twice,
\* and when the loop ends every entry has been assigned exactly once.
C19_EachPixelOnce ==
    ( call.op = "loop" /\ ~call.st.threw ) =>
      LET T == call.fields.tileSize
      IN  /\ \A k \in DOMAIN call.count : call.count[k] <= 1
          /\ Cardinality({ k \in DOMAIN call.count : call.count[k] = 1 }) = 4 * call.n
          /\ call.n = T * T => \A k \in DOMAIN call.count : call.count[k] = 1
          /\ call.n > 0 =>
               \A c \in 1..4 :
                 call.st.outputData[4 * (T * (T - 1 - ((call.n - 1) \div T))
                                         + ((call.n - 1) % T)) + c]
                   = call.rgba[c]

\* the loop of a tile of several rows has ended
C19_Witness ==
    /\ call.op = "loop" /\ ~call.st.threw
    /\ call.fields.tileSize >= 2
    /\ call.n = call.fields.tileSize * call.fields.tileSize
    /\ call.rgba # call.fields.defaultColor
    /\ \E k \in DOMAIN call.st.outputData : call.st.outputData[k] # call.rgba[((k - 1) % 4) + 1]

\* ----------------------------------------------------- direct calls: toID
\* the triples (zoom, x, y) the key is computed for: x, y < 2^zoom, the zooms
\* from 0 to the largest one, 31
ToIDInputs ==
    { t \in { << z, x, y >> : z \in { 0, 1, 2, 5, 30 }, x \in 0..1, y \in 0..1 } :
        t[2] < Pow2(t[1]) /\ t[3] < Pow2(t[1]) }
      \cup { << 31, x, 1 >> : x \in 0..1 }

ToIDInit ==
    /\ options = [ x \in {} |-> 0 ]
    /\ mode = "toID"
    /\ QuietInit

\* toID(zoom, x, y); the key is 32 * key[1] + key[2]; prev is the call before
toID_call ==
    /\ call.op \in { "none", "toID" }
    /\ \E t \in ToIDInputs :
         call' = [ op |-> "toID", z |-> t[1], x |-> t[2], y |-> t[3],
                   key |-> toIDParts(t[1], t[2], t[3]),
                   prev |-> IF call.op = "toID"
                            THEN << [ z |-> call.z, x |-> call.x, y |-> call.y,
                                      key |-> call.key ] >>
                            ELSE << >> ]
    /\ QuietFrame

SpecToID == ToIDInit /\ [][toID_call]_vars

\* C20: the key of (zoom, x, y) is ((2^zoom * y + x) * 32) + zoom, and two
\* different triples never have the same key.  (2^zoom * y + x is not
\* negative; the test comes first so that 2^31 is never computed for a key
\* that already differs in sign.)
C20_KeyFormulaInjective ==
    call.op = "toID" =>
      /\ call.key[1] >= 0
      /\ call.key = << Pow2(call.z) * call.y + call.x, call.z >>
      /\ \A p \in { call.prev[n] : n \in DOMAIN call.prev } :
           << p.z, p.x, p.y >> # << call.z, call.x, call.y >> => p.key # call.key

====
